---- MODULE Spec2Model ----
(***************************************************************************)
(* Model of the async-operation hooks of the React Native binding          *)
(* (src/src/hooks.ts, src/unnamed/part_000) and of the provider that       *)
(* shares one client with them (src/src/context.tsx).  Every hook owns one *)
(* AsyncState {data, loading, error}, an execute action that delegates to  *)
(* one method of the wrapped client, and a reset action.                   *)
(***************************************************************************)
EXTENDS Integers, Sequences, FiniteSets, TLC

(* ---------------------------- bounds ---------------------------------- *)

\* execute invocations made in one behaviour
MaxInvocations == 2
\* reset calls made in one behaviour
MaxResets == 2
\* evaluations (renders) of the provider in one behaviour
MaxRenders == 2
\* client lookups in one behaviour, those of the hooks included
MaxLookups == 2
\* execute invocations and reset calls in one behaviour of the whole app
MaxAppInvocations == 1
MaxAppResets == 1
MaxSkinInvocations == 2

(* ------------------------ JavaScript values --------------------------- *)
\* A value is a record of one shape: its type tag, its object reference
\* (0 for a primitive), its numeric value and its text.

Null == [type |-> "null", ref |-> 0, num |-> 0, str |-> ""]

Undefined == [type |-> "undefined", ref |-> 0, num |-> 0, str |-> ""]

Str(s) == [type |-> "string", ref |-> 0, num |-> 0, str |-> s]

Num(n) == [type |-> "number", ref |-> 0, num |-> n, str |-> ""]

\* a result record built by the client; payload is its content
Obj(r, payload) == [type |-> "object", ref |-> r, num |-> 0, str |-> payload]

\* new Error(message)
NewError(r, message) == [type |-> "Error", ref |-> r, num |-> 0, str |-> message]

\* err instanceof Error
InstanceOfError(v) == v.type = "Error"

Digit(d) == <<"0", "1", "2", "3", "4", "5", "6", "7", "8", "9">>[d + 1]

RECURSIVE NatToString(_)
NatToString(n) == IF n < 10 THEN Digit(n) ELSE NatToString(n \div 10) \o Digit(n % 10)

\* String(v)
String(v) ==
    CASE v.type = "string"    -> v.str
      [] v.type = "number"    -> IF v.num < 0 THEN "-" \o NatToString(-v.num) ELSE NatToString(v.num)
      [] v.type = "null"      -> "null"
      [] v.type = "undefined" -> "undefined"
      [] v.type = "Error"     -> IF v.str = "" THEN "Error" ELSE "Error: " \o v.str
      [] OTHER                -> "[object Object]"

(* --------------------------- the hooks -------------------------------- *)

RequiredInputHooks ==
    {"useDetectBullying", "useDetectGrooming", "useDetectUnsafe", "useAnalyze",
     "useAnalyzeEmotions", "useGetActionPlan", "useGenerateReport", "useRecordConsent",
     "useWithdrawConsent", "useRectifyData", "useLogBreach", "useGetBreach"}

NoArgHooks == {"useDeleteAccountData", "useExportAccountData"}

OptionalFilterHooks == {"useGetConsentStatus", "useGetAuditLogs", "useListBreaches"}

TwoArgHooks == {"useUpdateBreachStatus"}

Hooks == RequiredInputHooks \cup NoArgHooks \cup OptionalFilterHooks \cup TwoArgHooks

\* the client method a hook's execute awaits
Method(hook) ==
    CASE hook = "useDetectBullying"     -> "detectBullying"
      [] hook = "useDetectGrooming"     -> "detectGrooming"
      [] hook = "useDetectUnsafe"       -> "detectUnsafe"
      [] hook = "useAnalyze"            -> "analyze"
      [] hook = "useAnalyzeEmotions"    -> "analyzeEmotions"
      [] hook = "useGetActionPlan"      -> "getActionPlan"
      [] hook = "useGenerateReport"     -> "generateReport"
      [] hook = "useDeleteAccountData"  -> "deleteAccountData"
      [] hook = "useExportAccountData"  -> "exportAccountData"
      [] hook = "useRecordConsent"      -> "recordConsent"
      [] hook = "useGetConsentStatus"   -> "getConsentStatus"
      [] hook = "useWithdrawConsent"    -> "withdrawConsent"
      [] hook = "useRectifyData"        -> "rectifyData"
      [] hook = "useGetAuditLogs"       -> "getAuditLogs"
      [] hook = "useLogBreach"          -> "logBreach"
      [] hook = "useListBreaches"       -> "listBreaches"
      [] hook = "useGetBreach"          -> "getBreach"
      [] hook = "useUpdateBreachStatus" -> "updateBreachStatus"

\* the inputs a caller hands to execute, by the hook's calling convention
\* (the two-argument hook takes one record {id, input})
InputsOf(hook) ==
    IF hook \in NoArgHooks THEN {Undefined}
    ELSE IF hook \in OptionalFilterHooks THEN {Undefined, Str("A")}
    ELSE IF hook \in TwoArgHooks THEN {[id |-> Str("b1"), input |-> Str("A")]}
    ELSE {Str("A")}

\* an execute that hands the two-argument method its params record as one
\* argument
ArgsOfPassesParams(hook, input) ==
    IF hook \in NoArgHooks THEN << >> ELSE <<input>>

\* the arguments execute passes to the client method
ArgsOf(hook, input) ==
    IF hook \in NoArgHooks THEN << >>
    ELSE IF hook \in TwoArgHooks THEN <<input.id, input.input>>
    ELSE <<input>>

(* ------------------------- the async state ---------------------------- *)

\* useState initial value, and the value reset() writes
IdleState == [data |-> Null, loading |-> FALSE, error |-> Null]

\* setState({ data: null, loading: true, error: null })
PendingState == [data |-> Null, loading |-> TRUE, error |-> Null]

\* a Fulfilled write that forgets to clear loading
FulfilledStateStillLoading(result) == [data |-> result, loading |-> TRUE, error |-> Null]

\* setState({ data: result, loading: false, error: null })
FulfilledState(result) == [data |-> result, loading |-> FALSE, error |-> Null]

\* a Rejected write that forgets to clear loading
RejectedStateStillLoading(error) == [data |-> Null, loading |-> TRUE, error |-> error]

\* setState({ data: null, loading: false, error })
RejectedState(error) == [data |-> Null, loading |-> FALSE, error |-> error]

\* a normalization without the instanceof test: every thrown value is wrapped
NormalizeErrorAlwaysWraps(err, r) == NewError(r, String(err))

\* err instanceof Error ? err : new Error(String(err)); r is the reference
\* the new object gets when one is built
NormalizeError(err, r) == IF InstanceOfError(err) THEN err ELSE NewError(r, String(err))

(* --------------------------- the provider ----------------------------- *)

\* clientRef.current before the client is built: useRef(null)
NoClient == [type |-> "null", ref |-> 0, apiKey |-> "", options |-> ""]

\* new SafeNestClient(apiKey, options); r is the reference of the new object
NewClient(r, apiKey, options) == [type |-> "client", ref |-> r, apiKey |-> apiKey, options |-> options]

\* the default of the context: createContext(null)
NullContext == [ref |-> 0, client |-> NoClient, isReady |-> FALSE]

\* a context value that is not ready when it is first provided
ContextValueNotReady(r, client) == [ref |-> r, client |-> client, isReady |-> FALSE]

\* the object the useMemo callback builds: { client: clientRef.current, isReady: true }
ContextValue(r, client) == [ref |-> r, client |-> client, isReady |-> TRUE]

MissingProviderMessage == "useSafeNestClient must be used within a SafeNestProvider"

\* a lookup that falls back to a client of its own when there is no provider
UseSafeNestClientWithDefault(context, r) ==
    IF context = NullContext
    THEN [kind |-> "return", value |-> ContextValue(r, NewClient(r, "", ""))]
    ELSE [kind |-> "return", value |-> context]

\* useSafeNestClient(), given what useContext returned; r is the reference
\* the Error gets when one is built
UseSafeNestClient(context, r) ==
    IF context = NullContext
    THEN [kind |-> "throw", value |-> NewError(r, MissingProviderMessage)]
    ELSE [kind |-> "return", value |-> context]

\* no props: the provider has not been evaluated
NoProps == [apiKey |-> "", options |-> ""]

\* the functions of a hook that has not been rendered, and of one that has:
\* two function objects
NoCallbacks == [execute |-> 0, reset |-> 0]
NewCallbacks(r) == [execute |-> r, reset |-> r + 1]

\* the props a provider may be rendered with
Props == {[apiKey |-> "key1", options |-> "default"],
          [apiKey |-> "key2", options |-> "custom"]}

(* ----------------------------- state ---------------------------------- *)

Instances == {"op1", "op2"}

\* every input of every calling convention
Inputs == UNION {InputsOf(hook) : hook \in Hooks}

\* what a result record may carry
Payloads == {"flagged"}

\* what a failing client call may throw: an Error, or any other value
Thrown == {NewError(0, "timeout"), Str("rate limited"), Num(429)}

\* the value as thrown: an Error is a new object the client built, with
\* reference r
Raised(thrown, r) == IF InstanceOfError(thrown) THEN [thrown EXCEPT !.ref = r] ELSE thrown

VARIABLES
    hookOf,       \* instance -> the hook that created it, "none" if not rendered
    state,        \* instance -> AsyncState
    invocations,  \* the execute invocations, in call order
    calls,        \* the client method calls issued, in order
    nextRef,      \* the reference the next new object gets
    resets,       \* number of reset calls so far
    settledSinceReset,  \* instance -> an invocation settled after its latest reset
    last,         \* the latest event
    prevState,    \* state before the latest event
    renders,      \* number of evaluations of the provider, 0 before it is mounted
    clientRef,    \* clientRef.current of the provider
    contextValue, \* the memoized value the provider hands to its descendants
    constructions,  \* the clients built by the constructor, in order
    lookups,      \* the useSafeNestClient calls, in order: where the caller is, how many
                  \* provider evaluations came before, the outcome
    clientOf,     \* instance -> the client its hook took from the context
    props,        \* the props of the latest evaluation of the provider
    callbacks     \* instance -> the execute and reset functions its hook returns

scopeVars == <<renders, clientRef, contextValue, constructions, lookups, clientOf, props,
               callbacks>>

vars == <<hookOf, state, invocations, calls, nextRef, resets, settledSinceReset, last, prevState,
          renders, clientRef, contextValue, constructions, lookups, clientOf, props, callbacks>>

\* the outcome of a call that has not settled
NoOutcome == [kind |-> "none", value |-> Null]

Settled(i) == invocations[i].pc # "await"

\* a component that renders one hook (instance op1) inside a mounted provider;
\* op2 is not rendered
Init ==
    /\ \E hook \in Hooks : hookOf = [h \in Instances |-> IF h = "op1" THEN hook ELSE "none"]
    /\ state = [h \in Instances |-> IdleState]
    /\ invocations = << >>
    /\ calls = << >>
    /\ nextRef = 5
    /\ resets = 0
    /\ settledSinceReset = [h \in Instances |-> FALSE]
    /\ last = [op |-> "init", inst |-> "none", inv |-> 0, rep |-> FALSE]
    /\ prevState = state
    /\ renders = 1
    /\ props = [apiKey |-> "key1", options |-> "default"]
    /\ clientRef = NewClient(1, props.apiKey, props.options)
    /\ contextValue = ContextValue(2, clientRef)
    /\ constructions = <<clientRef>>
    /\ lookups = <<[inside |-> TRUE, at |-> 1, outcome |-> UseSafeNestClient(contextValue, 3)]>>
    /\ clientOf = [h \in Instances |-> IF h = "op1" THEN clientRef ELSE NoClient]
    /\ callbacks = [h \in Instances |-> IF h = "op1" THEN NewCallbacks(3) ELSE NoCallbacks]

\* the app before anything is rendered: no provider, no hook
InitApp ==
    /\ hookOf = [h \in Instances |-> "none"]
    /\ state = [h \in Instances |-> IdleState]
    /\ invocations = << >>
    /\ calls = << >>
    /\ nextRef = 1
    /\ resets = 0
    /\ settledSinceReset = [h \in Instances |-> FALSE]
    /\ last = [op |-> "init", inst |-> "none", inv |-> 0, rep |-> FALSE]
    /\ prevState = state
    /\ renders = 0
    /\ clientRef = NoClient
    /\ contextValue = NullContext
    /\ constructions = << >>
    /\ lookups = << >>
    /\ clientOf = [h \in Instances |-> NoClient]
    /\ props = NoProps
    /\ callbacks = [h \in Instances |-> NoCallbacks]

(* ---------------------------- actions --------------------------------- *)

\* an execute that joins a call already in flight with the same input
\* instead of issuing its own
ExecuteDedupes(h, input) ==
    /\ hookOf[h] # "none"
    /\ input \in InputsOf(hookOf[h])
    /\ Len(invocations) < MaxInvocations
    /\ LET pending == [state EXCEPT ![h] = PendingState]
           inv == Len(invocations) + 1
           inFlight == \E j \in 1..Len(invocations) :
                           /\ invocations[j].inst = h
                           /\ invocations[j].pc = "await"
                           /\ invocations[j].input = input
       IN /\ state' = pending
          /\ calls' = IF inFlight THEN calls
                      ELSE Append(calls, [inv |-> inv, client |-> clientOf[h],
                                          method |-> Method(hookOf[h]),
                                          args |-> ArgsOf(hookOf[h], input), seen |-> pending[h]])
          /\ invocations' = Append(invocations,
                 [inst |-> h, input |-> input, pc |-> "await", response |-> NoOutcome,
                  outcome |-> NoOutcome, replaced |-> state[h], resetSince |-> FALSE])
          /\ last' = [op |-> "execute", inst |-> h, inv |-> inv, rep |-> FALSE]
    /\ prevState' = state
    /\ UNCHANGED <<hookOf, nextRef, resets, settledSinceReset>>
    /\ UNCHANGED scopeVars

\* an execute that calls the client before it writes Pending
ExecuteCallsFirst(h, input) ==
    /\ hookOf[h] # "none"
    /\ input \in InputsOf(hookOf[h])
    /\ Len(invocations) < MaxInvocations
    /\ LET inv == Len(invocations) + 1
       IN /\ calls' = Append(calls, [inv |-> inv, client |-> clientOf[h],
                                     method |-> Method(hookOf[h]),
                                     args |-> ArgsOf(hookOf[h], input), seen |-> state[h]])
          /\ state' = [state EXCEPT ![h] = PendingState]
          /\ invocations' = Append(invocations,
                 [inst |-> h, input |-> input, pc |-> "await", response |-> NoOutcome,
                  outcome |-> NoOutcome, replaced |-> state[h], resetSince |-> FALSE])
          /\ last' = [op |-> "execute", inst |-> h, inv |-> inv, rep |-> FALSE]
    /\ prevState' = state
    /\ UNCHANGED <<hookOf, nextRef, resets, settledSinceReset>>
    /\ UNCHANGED scopeVars

\* execute(input) up to the await: the Pending write, then the client call.
\* A call records the state the instance had when the call was issued; an
\* invocation records the state its Pending write replaced.
Execute(h, input) ==
    /\ hookOf[h] # "none"
    /\ input \in InputsOf(hookOf[h])
    /\ Len(invocations) < MaxInvocations
    /\ LET pending == [state EXCEPT ![h] = PendingState]
           inv == Len(invocations) + 1
       IN /\ state' = pending
          /\ calls' = Append(calls, [inv |-> inv, client |-> clientOf[h],
                                     method |-> Method(hookOf[h]),
                                     args |-> ArgsOf(hookOf[h], input), seen |-> pending[h]])
          /\ invocations' = Append(invocations,
                 [inst |-> h, input |-> input, pc |-> "await", response |-> NoOutcome,
                  outcome |-> NoOutcome, replaced |-> state[h], resetSince |-> FALSE])
          /\ last' = [op |-> "execute", inst |-> h, inv |-> inv, rep |-> FALSE]
    /\ prevState' = state
    /\ UNCHANGED <<hookOf, nextRef, resets, settledSinceReset>>
    /\ UNCHANGED scopeVars

\* a resolve continuation that, once superseded, hands its caller what the
\* state shows instead of its own result
ResolveReturnsShown(i, payload) ==
    /\ i \in 1..Len(invocations)
    /\ invocations[i].pc = "await"
    /\ LET h == invocations[i].inst
           result == Obj(nextRef, payload)
           current == /\ ~invocations[i].resetSince
                      /\ \A j \in 1..Len(invocations) : invocations[j].inst = h => j <= i
       IN /\ state' = IF current THEN [state EXCEPT ![h] = FulfilledState(result)] ELSE state
          /\ invocations' = [invocations EXCEPT ![i].pc = "returned",
                                                ![i].response = [kind |-> "resolve", value |-> result],
                                                ![i].outcome = [kind |-> "return",
                                                                value |-> IF current THEN result ELSE state[h].data]]
          /\ settledSinceReset' = [settledSinceReset EXCEPT ![h] = TRUE]
          /\ last' = [op |-> "settle", inst |-> h, inv |-> i, rep |-> FALSE]
    /\ nextRef' = nextRef + 1
    /\ prevState' = state
    /\ UNCHANGED <<hookOf, calls, resets>>
    /\ UNCHANGED scopeVars

\* a resolve continuation that writes only when no newer execute and no reset
\* came after the invocation started
ResolveIfCurrent(i, payload) ==
    /\ i \in 1..Len(invocations)
    /\ invocations[i].pc = "await"
    /\ LET h == invocations[i].inst
           result == Obj(nextRef, payload)
           current == /\ ~invocations[i].resetSince
                      /\ \A j \in 1..Len(invocations) : invocations[j].inst = h => j <= i
       IN /\ state' = IF current THEN [state EXCEPT ![h] = FulfilledState(result)] ELSE state
          /\ invocations' = [invocations EXCEPT ![i].pc = "returned",
                                                ![i].response = [kind |-> "resolve", value |-> result],
                                                ![i].outcome = [kind |-> "return", value |-> result]]
          /\ settledSinceReset' = [settledSinceReset EXCEPT ![h] = TRUE]
          /\ last' = [op |-> "settle", inst |-> h, inv |-> i, rep |-> FALSE]
    /\ nextRef' = nextRef + 1
    /\ prevState' = state
    /\ UNCHANGED <<hookOf, calls, resets>>
    /\ UNCHANGED scopeVars

\* the awaited call of invocation i resolves with a new result record:
\* the Fulfilled write, then return result
Resolve(i, payload) ==
    /\ i \in 1..Len(invocations)
    /\ invocations[i].pc = "await"
    /\ LET h == invocations[i].inst
           result == Obj(nextRef, payload)
       IN /\ state' = [state EXCEPT ![h] = FulfilledState(result)]
          /\ invocations' = [invocations EXCEPT ![i].pc = "returned",
                                                ![i].response = [kind |-> "resolve", value |-> result],
                                                ![i].outcome = [kind |-> "return", value |-> result]]
          /\ settledSinceReset' = [settledSinceReset EXCEPT ![h] = TRUE]
          /\ last' = [op |-> "settle", inst |-> h, inv |-> i, rep |-> FALSE]
    /\ nextRef' = nextRef + 1
    /\ prevState' = state
    /\ UNCHANGED <<hookOf, calls, resets>>
    /\ UNCHANGED scopeVars

\* a catch continuation that merges the error into the state it finds
CatchKeepsData(i, thrown) ==
    /\ i \in 1..Len(invocations)
    /\ invocations[i].pc = "await"
    /\ LET h == invocations[i].inst
           err == Raised(thrown, nextRef)
           error == NormalizeError(err, nextRef)
       IN /\ state' = [state EXCEPT ![h] = [data |-> state[h].data, loading |-> FALSE, error |-> error]]
          /\ invocations' = [invocations EXCEPT ![i].pc = "threw",
                                                ![i].response = [kind |-> "reject", value |-> err],
                                                ![i].outcome = [kind |-> "throw", value |-> error]]
          /\ settledSinceReset' = [settledSinceReset EXCEPT ![h] = TRUE]
          /\ last' = [op |-> "settle", inst |-> h, inv |-> i, rep |-> FALSE]
    /\ nextRef' = nextRef + 1
    /\ prevState' = state
    /\ UNCHANGED <<hookOf, calls, resets>>
    /\ UNCHANGED scopeVars

\* the awaited call of invocation i fails and the catch clause receives err:
\* normalize, the Rejected write, then throw error
Catch(i, thrown) ==
    /\ i \in 1..Len(invocations)
    /\ invocations[i].pc = "await"
    /\ LET h == invocations[i].inst
           err == Raised(thrown, nextRef)
           error == NormalizeError(err, nextRef)
       IN /\ state' = [state EXCEPT ![h] = RejectedState(error)]
          /\ invocations' = [invocations EXCEPT ![i].pc = "threw",
                                                ![i].response = [kind |-> "reject", value |-> err],
                                                ![i].outcome = [kind |-> "throw", value |-> error]]
          /\ settledSinceReset' = [settledSinceReset EXCEPT ![h] = TRUE]
          /\ last' = [op |-> "settle", inst |-> h, inv |-> i, rep |-> FALSE]
    /\ nextRef' = nextRef + 1
    /\ prevState' = state
    /\ UNCHANGED <<hookOf, calls, resets>>
    /\ UNCHANGED scopeVars

\* the invocations after reset() was called on instance h
MarkReset(h) ==
    [i \in 1..Len(invocations) |->
        IF invocations[i].inst = h THEN [invocations[i] EXCEPT !.resetSince = TRUE]
        ELSE invocations[i]]

\* a reset that does nothing while a call is in flight
ResetUnlessPending(h) ==
    /\ hookOf[h] # "none"
    /\ resets < MaxResets
    /\ state' = IF state[h].loading THEN state ELSE [state EXCEPT ![h] = IdleState]
    /\ invocations' = MarkReset(h)
    /\ settledSinceReset' = [settledSinceReset EXCEPT ![h] = FALSE]
    /\ last' = [op |-> "reset", inst |-> h, inv |-> 0,
                rep |-> (last.op = "reset" /\ last.inst = h)]
    /\ resets' = resets + 1
    /\ prevState' = state
    /\ UNCHANGED <<hookOf, calls, nextRef>>
    /\ UNCHANGED scopeVars

\* a reset that clears every rendered instance, as if the hooks shared one
\* state
ResetAll(h) ==
    /\ hookOf[h] # "none"
    /\ resets < MaxResets
    /\ state' = [g \in Instances |-> IF hookOf[g] # "none" THEN IdleState ELSE state[g]]
    /\ invocations' = MarkReset(h)
    /\ settledSinceReset' = [settledSinceReset EXCEPT ![h] = FALSE]
    /\ last' = [op |-> "reset", inst |-> h, inv |-> 0,
                rep |-> (last.op = "reset" /\ last.inst = h)]
    /\ resets' = resets + 1
    /\ prevState' = state
    /\ UNCHANGED <<hookOf, calls, nextRef>>
    /\ UNCHANGED scopeVars

\* reset()
Reset(h) ==
    /\ hookOf[h] # "none"
    /\ resets < MaxResets
    /\ state' = [state EXCEPT ![h] = IdleState]
    /\ invocations' = MarkReset(h)
    /\ settledSinceReset' = [settledSinceReset EXCEPT ![h] = FALSE]
    /\ last' = [op |-> "reset", inst |-> h, inv |-> 0,
                rep |-> (last.op = "reset" /\ last.inst = h)]
    /\ resets' = resets + 1
    /\ prevState' = state
    /\ UNCHANGED <<hookOf, calls, nextRef>>
    /\ UNCHANGED scopeVars

(* ---------------------- actions of the provider ----------------------- *)

\* a provider without the clientRef test: a client is built at every render
RenderProviderAlwaysConstructs(apiKey, options) ==
    /\ renders < MaxRenders
    /\ LET first == renders = 0
           client == NewClient(nextRef, apiKey, options)
       IN /\ clientRef' = client
          /\ constructions' = Append(constructions, client)
          /\ contextValue' = IF first THEN ContextValue(nextRef + 1, client) ELSE contextValue
          /\ nextRef' = nextRef + 1 + (IF first THEN 1 ELSE 0)
    /\ renders' = renders + 1
    /\ props' = [apiKey |-> apiKey, options |-> options]
    /\ last' = [op |-> "render", inst |-> "none", inv |-> 0, rep |-> FALSE]
    /\ prevState' = state
    /\ UNCHANGED <<hookOf, state, invocations, calls, resets, settledSinceReset, lookups, clientOf,
                   callbacks>>

\* a provider without useMemo: a new context value object at every render
RenderProviderWithoutMemo(apiKey, options) ==
    /\ renders < MaxRenders
    /\ LET construct == clientRef = NoClient
           client == IF construct THEN NewClient(nextRef, apiKey, options) ELSE clientRef
       IN /\ clientRef' = client
          /\ constructions' = IF construct THEN Append(constructions, client) ELSE constructions
          /\ contextValue' = ContextValue(nextRef + 1, client)
          /\ nextRef' = nextRef + 2
    /\ renders' = renders + 1
    /\ props' = [apiKey |-> apiKey, options |-> options]
    /\ last' = [op |-> "render", inst |-> "none", inv |-> 0, rep |-> FALSE]
    /\ prevState' = state
    /\ UNCHANGED <<hookOf, state, invocations, calls, resets, settledSinceReset, lookups, clientOf,
                   callbacks>>

\* a provider that follows its props: a new client, and a new context
\* value, whenever apiKey or options differ from the ones the client was
\* built with
RenderProviderFollowsProps(apiKey, options) ==
    /\ renders < MaxRenders
    /\ LET construct == \/ clientRef = NoClient
                        \/ clientRef.apiKey # apiKey
                        \/ clientRef.options # options
           client == IF construct THEN NewClient(nextRef, apiKey, options) ELSE clientRef
       IN /\ clientRef' = client
          /\ constructions' = IF construct THEN Append(constructions, client) ELSE constructions
          /\ contextValue' = IF construct THEN ContextValue(nextRef + 1, client) ELSE contextValue
          /\ nextRef' = IF construct THEN nextRef + 2 ELSE nextRef
    /\ renders' = renders + 1
    /\ props' = [apiKey |-> apiKey, options |-> options]
    /\ last' = [op |-> "render", inst |-> "none", inv |-> 0, rep |-> FALSE]
    /\ prevState' = state
    /\ UNCHANGED <<hookOf, state, invocations, calls, resets, settledSinceReset, lookups, clientOf,
                   callbacks>>

\* a provider that leaves the construction of the client for later
RenderProviderWithoutClient(apiKey, options) ==
    /\ renders < MaxRenders
    /\ LET first == renders = 0
       IN /\ contextValue' = IF first THEN ContextValue(nextRef, clientRef) ELSE contextValue
          /\ nextRef' = nextRef + (IF first THEN 1 ELSE 0)
    /\ renders' = renders + 1
    /\ props' = [apiKey |-> apiKey, options |-> options]
    /\ last' = [op |-> "render", inst |-> "none", inv |-> 0, rep |-> FALSE]
    /\ prevState' = state
    /\ UNCHANGED <<hookOf, state, invocations, calls, resets, settledSinceReset, lookups, clientOf,
                   callbacks>>
    /\ UNCHANGED <<clientRef, constructions>>

\* one evaluation of SafeNestProvider with the given props: build the client
\* if clientRef.current is empty, memoize the context value on the first
\* evaluation (useMemo with no dependencies), provide it
RenderProvider(apiKey, options) ==
    /\ renders < MaxRenders
    /\ LET first == renders = 0
           construct == clientRef = NoClient
           client == IF construct THEN NewClient(nextRef, apiKey, options) ELSE clientRef
           built == IF construct THEN 1 ELSE 0
       IN /\ clientRef' = client
          /\ constructions' = IF construct THEN Append(constructions, client) ELSE constructions
          /\ contextValue' = IF first THEN ContextValue(nextRef + built, client) ELSE contextValue
          /\ nextRef' = nextRef + built + (IF first THEN 1 ELSE 0)
    /\ renders' = renders + 1
    /\ props' = [apiKey |-> apiKey, options |-> options]
    /\ last' = [op |-> "render", inst |-> "none", inv |-> 0, rep |-> FALSE]
    /\ prevState' = state
    /\ UNCHANGED <<hookOf, state, invocations, calls, resets, settledSinceReset, lookups, clientOf,
                   callbacks>>

\* useContext(SafeNestContext) in a component that is, or is not, a
\* descendant of the provider
UseContext(inside) == IF inside THEN contextValue ELSE NullContext

\* a component calls useSafeNestClient()
UseClient(inside) ==
    /\ Len(lookups) < MaxLookups
    /\ inside => renders > 0
    /\ LET outcome == UseSafeNestClient(UseContext(inside), nextRef)
       IN /\ lookups' = Append(lookups, [inside |-> inside, at |-> renders, outcome |-> outcome])
          /\ nextRef' = IF outcome.kind = "throw" THEN nextRef + 1 ELSE nextRef
    /\ last' = [op |-> "lookup", inst |-> "none", inv |-> 0, rep |-> FALSE]
    /\ prevState' = state
    /\ UNCHANGED <<hookOf, state, invocations, calls, resets, settledSinceReset,
                   renders, clientRef, contextValue, constructions, clientOf, props, callbacks>>

\* a hook that runs its operation as soon as it is rendered
UseHookAutoExecutes(h, hook, inside) ==
    /\ hookOf[h] = "none"
    /\ Len(lookups) < MaxLookups
    /\ inside => renders > 0
    /\ LET outcome == UseSafeNestClient(UseContext(inside), nextRef)
           ok == outcome.kind = "return"
       IN /\ lookups' = Append(lookups, [inside |-> inside, at |-> renders, outcome |-> outcome])
          /\ nextRef' = IF ok THEN nextRef + 2 ELSE nextRef + 1
          /\ hookOf' = IF ok THEN [hookOf EXCEPT ![h] = hook] ELSE hookOf
          /\ callbacks' = IF ok THEN [callbacks EXCEPT ![h] = NewCallbacks(nextRef)] ELSE callbacks
          /\ clientOf' = IF ok THEN [clientOf EXCEPT ![h] = outcome.value.client] ELSE clientOf
          /\ state' = IF ok THEN [state EXCEPT ![h] = IdleState] ELSE state
          /\ calls' = IF ok THEN Append(calls, [inv |-> 0, client |-> outcome.value.client,
                                                method |-> Method(hook),
                                                args |-> << >>, seen |-> IdleState])
                      ELSE calls
    /\ last' = [op |-> "usehook", inst |-> h, inv |-> 0, rep |-> FALSE]
    /\ prevState' = state
    /\ UNCHANGED <<invocations, resets, settledSinceReset,
                   renders, clientRef, contextValue, constructions, props>>

\* first render of a component that calls the hook: the client lookup, then
\* useState(initial); when the lookup throws nothing else happens
UseHook(h, hook, inside) ==
    /\ hookOf[h] = "none"
    /\ Len(lookups) < MaxLookups
    /\ inside => renders > 0
    /\ LET outcome == UseSafeNestClient(UseContext(inside), nextRef)
           ok == outcome.kind = "return"
       IN /\ lookups' = Append(lookups, [inside |-> inside, at |-> renders, outcome |-> outcome])
          /\ nextRef' = IF ok THEN nextRef + 2 ELSE nextRef + 1
          /\ hookOf' = IF ok THEN [hookOf EXCEPT ![h] = hook] ELSE hookOf
          /\ callbacks' = IF ok THEN [callbacks EXCEPT ![h] = NewCallbacks(nextRef)] ELSE callbacks
          /\ clientOf' = IF ok THEN [clientOf EXCEPT ![h] = outcome.value.client] ELSE clientOf
          /\ state' = IF ok THEN [state EXCEPT ![h] = IdleState] ELSE state
    /\ last' = [op |-> "usehook", inst |-> h, inv |-> 0, rep |-> FALSE]
    /\ prevState' = state
    /\ UNCHANGED <<invocations, calls, resets, settledSinceReset,
                   renders, clientRef, contextValue, constructions, props>>

\* a hook without useCallback: execute and reset are new functions at every
\* render
RerenderHookWithoutCallback(h) ==
    /\ hookOf[h] # "none"
    /\ Len(lookups) < MaxLookups
    /\ LET outcome == UseSafeNestClient(UseContext(TRUE), nextRef)
       IN /\ lookups' = Append(lookups, [inside |-> TRUE, at |-> renders, outcome |-> outcome])
          /\ clientOf' = [clientOf EXCEPT ![h] = outcome.value.client]
          /\ callbacks' = [callbacks EXCEPT ![h] = NewCallbacks(nextRef)]
          /\ nextRef' = nextRef + 2
    /\ last' = [op |-> "rerender", inst |-> h, inv |-> 0, rep |-> FALSE]
    /\ prevState' = state
    /\ UNCHANGED <<hookOf, state, invocations, calls, resets, settledSinceReset,
                   renders, clientRef, contextValue, constructions, props>>

\* a later render of the component that calls the hook, after a state change
\* or a render of its parent: the client lookup again, useState keeps the
\* state, useCallback keeps reset (no dependencies) and keeps execute unless
\* the client is another object than at the render before
RerenderHook(h) ==
    /\ hookOf[h] # "none"
    /\ Len(lookups) < MaxLookups
    /\ LET outcome == UseSafeNestClient(UseContext(TRUE), nextRef)
           client == outcome.value.client
           same == client.ref = clientOf[h].ref
       IN /\ lookups' = Append(lookups, [inside |-> TRUE, at |-> renders, outcome |-> outcome])
          /\ clientOf' = [clientOf EXCEPT ![h] = client]
          /\ callbacks' = IF same THEN callbacks
                          ELSE [callbacks EXCEPT ![h].execute = nextRef]
          /\ nextRef' = IF same THEN nextRef ELSE nextRef + 1
    /\ last' = [op |-> "rerender", inst |-> h, inv |-> 0, rep |-> FALSE]
    /\ prevState' = state
    /\ UNCHANGED <<hookOf, state, invocations, calls, resets, settledSinceReset,
                   renders, clientRef, contextValue, constructions, props>>

\* the hook the component of the app uses
AppHooks == {"useDetectBullying"}

Next ==
    \/ \E h \in Instances, input \in Inputs : Execute(h, input)
    \/ \E i \in 1..MaxInvocations, payload \in Payloads : Resolve(i, payload)
    \/ \E i \in 1..MaxInvocations, thrown \in Thrown : Catch(i, thrown)
    \/ \E h \in Instances : Reset(h)

Spec == Init /\ [][Next]_vars

\* two components under one provider, each with its own hook: the same
\* capability twice, or two different ones
TwoHooks == {"useDetectBullying", "useGetConsentStatus"}

InitTwo ==
    /\ \E hook \in TwoHooks :
           hookOf = [h \in Instances |-> IF h = "op1" THEN "useDetectBullying" ELSE hook]
    /\ state = [h \in Instances |-> IdleState]
    /\ invocations = << >>
    /\ calls = << >>
    /\ nextRef = 7
    /\ resets = 0
    /\ settledSinceReset = [h \in Instances |-> FALSE]
    /\ last = [op |-> "init", inst |-> "none", inv |-> 0, rep |-> FALSE]
    /\ prevState = state
    /\ renders = 1
    /\ props = [apiKey |-> "key1", options |-> "default"]
    /\ clientRef = NewClient(1, props.apiKey, props.options)
    /\ contextValue = ContextValue(2, clientRef)
    /\ constructions = <<clientRef>>
    /\ lookups = <<[inside |-> TRUE, at |-> 1, outcome |-> UseSafeNestClient(contextValue, 3)],
                   [inside |-> TRUE, at |-> 1, outcome |-> UseSafeNestClient(contextValue, 3)]>>
    /\ clientOf = [h \in Instances |-> clientRef]
    /\ callbacks = [h \in Instances |-> IF h = "op1" THEN NewCallbacks(3) ELSE NewCallbacks(5)]

SpecTwo == InitTwo /\ [][Next]_vars

(* ------------------- the hooks of the SafeNest skin ------------------- *)

SafeNestRequiredInputHooks ==
    {"useDetectBullying", "useDetectGrooming", "useDetectUnsafe", "useAnalyze",
     "useAnalyzeEmotions", "useGetActionPlan", "useGenerateReport"}

SafeNestNoArgHooks == {"useDeleteAccountData", "useExportAccountData"}

SafeNestHooks == SafeNestRequiredInputHooks \cup SafeNestNoArgHooks

\* the client method a SafeNest hook's execute awaits
SafeNestMethod(hook) ==
    CASE hook = "useDetectBullying"     -> "detectBullying"
      [] hook = "useDetectGrooming"     -> "detectGrooming"
      [] hook = "useDetectUnsafe"       -> "detectUnsafe"
      [] hook = "useAnalyze"            -> "analyze"
      [] hook = "useAnalyzeEmotions"    -> "analyzeEmotions"
      [] hook = "useGetActionPlan"      -> "getActionPlan"
      [] hook = "useGenerateReport"     -> "generateReport"
      [] hook = "useDeleteAccountData"  -> "deleteAccountData"
      [] hook = "useExportAccountData"  -> "exportAccountData"

\* the arguments a SafeNest hook's execute passes to the client method
SafeNestArgsOf(hook, input) == IF hook \in SafeNestNoArgHooks THEN << >> ELSE <<input>>

\* useState initial value of a SafeNest hook, and the value its reset() writes
SafeNestIdleState == [data |-> Null, loading |-> FALSE, error |-> Null]

\* setState({ data: null, loading: true, error: null })
SafeNestPendingState == [data |-> Null, loading |-> TRUE, error |-> Null]

\* setState({ data: result, loading: false, error: null })
SafeNestFulfilledState(result) == [data |-> result, loading |-> FALSE, error |-> Null]

\* setState({ data: null, loading: false, error })
SafeNestRejectedState(error) == [data |-> Null, loading |-> FALSE, error |-> error]

\* a normalization that wraps whatever was thrown, an Error too
SafeNestNormalizeErrorAlwaysWraps(err, r) == NewError(r, String(err))

\* err instanceof Error ? err : new Error(String(err))
SafeNestNormalizeError(err, r) == IF InstanceOfError(err) THEN err ELSE NewError(r, String(err))

\* the hooks both skins have
SharedHooks == Hooks \cap SafeNestHooks

\* the same component written against each skin: op1 uses the hook of
\* hooks.ts, op2 the hook of the same name of the SafeNest skin
InitSkins ==
    /\ \E hook \in SharedHooks : hookOf = [h \in Instances |-> hook]
    /\ state = [h \in Instances |-> IF h = "op1" THEN IdleState ELSE SafeNestIdleState]
    /\ invocations = << >>
    /\ calls = << >>
    /\ nextRef = 7
    /\ resets = 0
    /\ settledSinceReset = [h \in Instances |-> FALSE]
    /\ last = [op |-> "init", inst |-> "none", inv |-> 0, rep |-> FALSE]
    /\ prevState = state
    /\ renders = 1
    /\ props = [apiKey |-> "key1", options |-> "default"]
    /\ clientRef = NewClient(1, props.apiKey, props.options)
    /\ contextValue = ContextValue(2, clientRef)
    /\ constructions = <<clientRef>>
    /\ lookups = <<[inside |-> TRUE, at |-> 1, outcome |-> UseSafeNestClient(contextValue, 3)],
                   [inside |-> TRUE, at |-> 1, outcome |-> UseSafeNestClient(contextValue, 3)]>>
    /\ clientOf = [h \in Instances |-> clientRef]
    /\ callbacks = [h \in Instances |-> IF h = "op1" THEN NewCallbacks(3) ELSE NewCallbacks(5)]

\* both components call execute(input): invocation 2k-1 is the one of op1,
\* invocation 2k the one of op2
SkinsExecute(input) ==
    /\ input \in InputsOf(hookOf["op1"])
    /\ Len(invocations) < 2 * MaxSkinInvocations
    /\ LET a == Len(invocations) + 1
           pending == [h \in Instances |->
                          IF h = "op1" THEN PendingState ELSE SafeNestPendingState]
           started(h) == [inst |-> h, input |-> input, pc |-> "await",
                          response |-> NoOutcome, outcome |-> NoOutcome,
                          replaced |-> state[h], resetSince |-> FALSE]
       IN /\ state' = pending
          /\ calls' = calls \o
                 <<[inv |-> a, client |-> clientOf["op1"], method |-> Method(hookOf["op1"]),
                    args |-> ArgsOf(hookOf["op1"], input), seen |-> pending["op1"]],
                   [inv |-> a + 1, client |-> clientOf["op2"],
                    method |-> SafeNestMethod(hookOf["op2"]),
                    args |-> SafeNestArgsOf(hookOf["op2"], input), seen |-> pending["op2"]]>>
          /\ invocations' = invocations \o <<started("op1"), started("op2")>>
          /\ last' = [op |-> "execute", inst |-> "op1", inv |-> a, rep |-> FALSE]
    /\ prevState' = state
    /\ UNCHANGED <<hookOf, nextRef, resets, settledSinceReset>>
    /\ UNCHANGED scopeVars

\* the k-th call of both components resolves with the same result record
SkinsResolve(k, payload) ==
    /\ 2 * k <= Len(invocations)
    /\ invocations[2 * k].pc = "await"
    /\ LET result == Obj(nextRef, payload)
           returned(i) == [invocations[i] EXCEPT
                              !.pc = "returned",
                              !.response = [kind |-> "resolve", value |-> result],
                              !.outcome = [kind |-> "return", value |-> result]]
       IN /\ state' = [h \in Instances |->
                          IF h = "op1" THEN FulfilledState(result)
                          ELSE SafeNestFulfilledState(result)]
          /\ invocations' = [i \in 1..Len(invocations) |->
                                 IF i \in {2 * k - 1, 2 * k} THEN returned(i)
                                 ELSE invocations[i]]
          /\ last' = [op |-> "settle", inst |-> "op1", inv |-> 2 * k - 1, rep |-> FALSE]
    /\ settledSinceReset' = [h \in Instances |-> TRUE]
    /\ nextRef' = nextRef + 1
    /\ prevState' = state
    /\ UNCHANGED <<hookOf, calls, resets>>
    /\ UNCHANGED scopeVars

\* the k-th call of both components fails with the same thrown value; each
\* hook normalizes it on its own
SkinsCatch(k, thrown) ==
    /\ 2 * k <= Len(invocations)
    /\ invocations[2 * k].pc = "await"
    /\ LET err == Raised(thrown, nextRef)
           error == [h \in Instances |->
                        IF h = "op1" THEN NormalizeError(err, nextRef)
                        ELSE SafeNestNormalizeError(err, nextRef + 1)]
           threw(i) == [invocations[i] EXCEPT
                           !.pc = "threw",
                           !.response = [kind |-> "reject", value |-> err],
                           !.outcome = [kind |-> "throw", value |-> error[invocations[i].inst]]]
       IN /\ state' = [h \in Instances |->
                          IF h = "op1" THEN RejectedState(error[h])
                          ELSE SafeNestRejectedState(error[h])]
          /\ invocations' = [i \in 1..Len(invocations) |->
                                 IF i \in {2 * k - 1, 2 * k} THEN threw(i)
                                 ELSE invocations[i]]
          /\ last' = [op |-> "settle", inst |-> "op1", inv |-> 2 * k - 1, rep |-> FALSE]
    /\ settledSinceReset' = [h \in Instances |-> TRUE]
    /\ nextRef' = nextRef + 2
    /\ prevState' = state
    /\ UNCHANGED <<hookOf, calls, resets>>
    /\ UNCHANGED scopeVars

\* both components call reset()
SkinsReset ==
    /\ resets < MaxResets
    /\ state' = [h \in Instances |-> IF h = "op1" THEN IdleState ELSE SafeNestIdleState]
    /\ invocations' = [i \in 1..Len(invocations) |->
                           [invocations[i] EXCEPT !.resetSince = TRUE]]
    /\ settledSinceReset' = [h \in Instances |-> FALSE]
    /\ last' = [op |-> "reset", inst |-> "op1", inv |-> 0, rep |-> last.op = "reset"]
    /\ resets' = resets + 1
    /\ prevState' = state
    /\ UNCHANGED <<hookOf, calls, nextRef>>
    /\ UNCHANGED scopeVars

NextSkins ==
    \/ \E input \in Inputs : SkinsExecute(input)
    \/ \E k \in 1..MaxSkinInvocations, payload \in Payloads : SkinsResolve(k, payload)
    \/ \E k \in 1..MaxSkinInvocations, thrown \in Thrown : SkinsCatch(k, thrown)
    \/ SkinsReset

SpecSkins == InitSkins /\ [][NextSkins]_vars

\* the hooks the package entry point re-exports
IndexExports ==
    {"useDetectBullying", "useDetectGrooming", "useDetectUnsafe", "useAnalyze",
     "useAnalyzeEmotions", "useGetActionPlan", "useGenerateReport",
     "useDeleteAccountData", "useExportAccountData", "useRecordConsent",
     "useGetConsentStatus", "useWithdrawConsent", "useRectifyData", "useGetAuditLogs"}

\* the awaited client call of invocation i settles, one way or the other
Settle(i) ==
    \/ \E payload \in Payloads : Resolve(i, payload)
    \/ \E thrown \in Thrown : Catch(i, thrown)

\* every client call eventually settles (the promise the client returned is
\* resolved or rejected), and the continuation of execute then runs
CallsSettle == \A i \in 1..MaxInvocations : WF_vars(Settle(i))

\* one hook of each calling convention
LiveHooks == {"useDetectBullying", "useExportAccountData", "useGetConsentStatus",
              "useUpdateBreachStatus"}

\* Init, with the hook of op1 among LiveHooks
InitLive == Init /\ hookOf["op1"] \in LiveHooks

SpecLive == InitLive /\ [][Next]_vars /\ CallsSettle

\* the whole app: the provider, a component that looks the client up, and
\* a component that uses one hook (instance op1)
AppThrown == {Str("rate limited")}

\* the component calls execute of its hook
AppExecute(input) == Len(invocations) < MaxAppInvocations /\ Execute("op1", input)

\* the component calls reset of its hook
AppReset == resets < MaxAppResets /\ Reset("op1")

NextApp ==
    \/ \E p \in Props : RenderProvider(p.apiKey, p.options)
    \/ \E inside \in BOOLEAN : UseClient(inside)
    \/ \E hook \in AppHooks, inside \in BOOLEAN : UseHook("op1", hook, inside)
    \/ RerenderHook("op1")
    \/ \E input \in Inputs : AppExecute(input)
    \/ \E i \in 1..MaxInvocations, payload \in Payloads : Resolve(i, payload)
    \/ \E i \in 1..MaxInvocations, thrown \in AppThrown : Catch(i, thrown)
    \/ AppReset

SpecApp == InitApp /\ [][NextApp]_vars

(* ------------------- vocabulary of the properties --------------------- *)

N == Len(invocations)

\* the latest event is the settlement of invocation a
JustSettled(a) == a \in 1..N /\ last.op = "settle" /\ last.inv = a

\* b is an invocation of a's instance started after a
Newer(a, b) == b \in 1..N /\ invocations[b].inst = invocations[a].inst /\ a < b

\* reset() was called on a's instance after a started
ResetSince(a) == invocations[a].resetSince

\* the state that shows the outcome of the settled invocation a
OutcomeState(a) ==
    IF invocations[a].outcome.kind = "return"
    THEN [data |-> invocations[a].outcome.value, loading |-> FALSE, error |-> Null]
    ELSE [data |-> Null, loading |-> FALSE, error |-> invocations[a].outcome.value]

\* no execute and no reset on a's instance between a's start and its settlement
Alone(a) == ~ResetSince(a) /\ \A b \in 1..N : ~Newer(a, b)

(* ------------------------------ C1 ------------------------------------ *)

\* C1: when invocation A settles after a newer invocation B of the same
\* instance has already settled, A's settlement leaves the state unchanged
\* and A's result or error is not written to data/error.
C1_StaleSettleAfterNewerDropped ==
    \A a \in 1..N : \A b \in 1..N :
        (JustSettled(a) /\ Newer(a, b) /\ Settled(b)) =>
            LET h == invocations[a].inst
            IN /\ state[h] = prevState[h]
               /\ state[h] # OutcomeState(a)

(* ------------------------------ C2 ------------------------------------ *)

\* C2: when invocation A settles while a newer invocation B of the same
\* instance is still outstanding (B the newest, and no reset after B
\* started), the state stays Pending; when B, the newest invocation, settles
\* with no reset since its start, the state holds B's outcome.
C2_PendingUntilNewestSettles ==
    /\ \A a \in 1..N : \A b \in 1..N :
           (JustSettled(a) /\ Newer(a, b) /\ ~Settled(b) /\ ~ResetSince(b)
                /\ \A c \in 1..N : ~Newer(b, c)) =>
               state[invocations[a].inst] = [data |-> Null, loading |-> TRUE, error |-> Null]
    /\ \A b \in 1..N :
           (JustSettled(b) /\ Alone(b)) => state[invocations[b].inst] = OutcomeState(b)

(* ------------------------------ C3 ------------------------------------ *)

\* C3: when invocation A settles after reset() was called during its flight
\* (and no execute was called since that reset), the state remains Idle: the
\* late response sets neither data nor error.
C3_SettleAfterResetStaysIdle ==
    \A a \in 1..N :
        (JustSettled(a) /\ ResetSince(a) /\ \A b \in 1..N : Newer(a, b) => ResetSince(b)) =>
            state[invocations[a].inst] = [data |-> Null, loading |-> FALSE, error |-> Null]

(* ------------------------------ C4 ------------------------------------ *)

\* C4: when an execute that ran alone (no other execute or reset on the
\* instance between its start and its settlement) resolves with value r, the
\* resulting state is exactly {data: r, loading: false, error: null}.
C4_FulfilledAfterSuccess ==
    \A a \in 1..N :
        (JustSettled(a) /\ Alone(a) /\ invocations[a].response.kind = "resolve") =>
            state[invocations[a].inst] =
                [data |-> invocations[a].response.value, loading |-> FALSE, error |-> Null]

\* an execute that ran alone has just resolved, for the last hook of the table
C4_Witness ==
    \E a \in 1..N :
        /\ JustSettled(a) /\ Alone(a) /\ invocations[a].response.kind = "resolve"
        /\ hookOf[invocations[a].inst] = "useUpdateBreachStatus"
        /\ state[invocations[a].inst].data.type = "object"

(* ------------------------------ C5 ------------------------------------ *)

\* the normalized error for a thrown value v: v itself when it is an Error,
\* otherwise an Error whose message is the text of v
IsNormalizedOf(e, v) ==
    IF v.type = "Error" THEN e = v
    ELSE e.type = "Error" /\ e.str = String(v) /\ e.ref # 0

\* C5: when an execute that ran alone fails, the resulting state is exactly
\* {data: null, loading: false, error: e}, e the normalized error for the
\* thrown value; data of an earlier successful invocation is gone.
C5_RejectedAfterFailure ==
    \A a \in 1..N :
        (JustSettled(a) /\ Alone(a) /\ invocations[a].response.kind = "reject") =>
            LET s == state[invocations[a].inst]
            IN /\ s.data = Null
               /\ s.loading = FALSE
               /\ IsNormalizedOf(s.error, invocations[a].response.value)

\* an execute that ran alone has just failed, after an earlier invocation of
\* the same instance had succeeded
C5_Witness ==
    \E a \in 1..N : \E b \in 1..N :
        /\ JustSettled(a) /\ Alone(a) /\ invocations[a].response.kind = "reject"
        /\ Newer(b, a) /\ invocations[b].pc = "returned"
        /\ invocations[a].replaced = OutcomeState(b)

(* ------------------------------ C6 ------------------------------------ *)

\* C6: right after reset() the instance is {data: null, loading: false,
\* error: null}, whatever the state before (Idle, Pending, Fulfilled or
\* Rejected); a reset right after a reset leaves the state of the first.
C6_ResetYieldsIdle ==
    last.op = "reset" =>
        /\ state[last.inst] = [data |-> Null, loading |-> FALSE, error |-> Null]
        /\ last.rep => state[last.inst] = prevState[last.inst]

\* reset() was just called while an invocation was Pending
C6_Witness ==
    /\ last.op = "reset"
    /\ prevState[last.inst].loading
    /\ \E a \in 1..N : invocations[a].inst = last.inst /\ ~Settled(a)

(* ------------------------------ C7 ------------------------------------ *)

\* an invocation of instance h has settled since the last reset of h
SettledSinceReset(h) == settledSinceReset[h]

\* C7: in every reachable state, loading implies data and error are both
\* absent; data and error are never both present; and when loading is false
\* and an invocation has settled since the last reset, exactly one of data
\* and error is present.
C7_StateShape ==
    \A h \in Instances :
        LET s == state[h]
        IN /\ s.loading => (s.data = Null /\ s.error = Null)
           /\ ~(s.data # Null /\ s.error # Null)
           /\ (~s.loading /\ SettledSinceReset(h)) => ((s.data # Null) # (s.error # Null))

\* an older invocation has failed after a newer one had succeeded
C7_Witness ==
    \E a \in 1..N : \E b \in 1..N :
        /\ JustSettled(a) /\ Newer(a, b)
        /\ invocations[b].pc = "returned" /\ invocations[a].pc = "threw"
        /\ SettledSinceReset(invocations[a].inst)

(* ------------------------------ C8 ------------------------------------ *)

\* C8: at the moment an invocation completes, superseded or not, what its
\* caller receives is what the state shows: a returned value r is data, a
\* raised error e is error.
C8_CallerSeesStateOutcome ==
    \A a \in 1..N :
        JustSettled(a) =>
            LET s == state[invocations[a].inst]
                o == invocations[a].outcome
            IN /\ o.kind = "return" => (s.data = o.value /\ s.error = Null)
               /\ o.kind = "throw" => (s.error = o.value /\ s.data = Null)
               /\ o.kind \in {"return", "throw"}

\* a superseded invocation (a newer one has already settled) has completed
C8_Witness ==
    \E a \in 1..N : \E b \in 1..N :
        JustSettled(a) /\ Newer(a, b) /\ Settled(b) /\ invocations[a].outcome.kind = "return"

(* ------------------------------ C9 ------------------------------------ *)

\* C9: execute writes Pending before the client method is invoked: every
\* client call was issued with the instance already {data: null, loading:
\* true, error: null}, and right after execute the previous data or error
\* is cleared.
C9_PendingBeforeCall ==
    /\ \A c \in 1..Len(calls) :
           calls[c].seen = [data |-> Null, loading |-> TRUE, error |-> Null]
    /\ Len(calls) = N
    /\ last.op = "execute" =>
           /\ state[last.inst] = [data |-> Null, loading |-> TRUE, error |-> Null]
           /\ calls[Len(calls)].inv = last.inv

\* execute was just called on an instance that showed a settled outcome
C9_Witness ==
    /\ last.op = "execute"
    /\ ~prevState[last.inst].loading
    /\ prevState[last.inst].data # Null \/ prevState[last.inst].error # Null

(* ------------------------------ C10 ----------------------------------- *)

\* C10: when the client call fails with thrown value v, execute raises and
\* never returns; an Error v is itself stored and raised; any other v is
\* wrapped once in a new Error whose message is the text of v, and that one
\* object is both stored and raised.
C10_ErrorNormalizedOnce ==
    \A a \in 1..N :
        (Settled(a) /\ invocations[a].response.kind = "reject") =>
            LET v == invocations[a].response.value
                e == invocations[a].outcome.value
            IN /\ invocations[a].outcome.kind = "throw"
               /\ invocations[a].pc = "threw"
               /\ IsNormalizedOf(e, v)
               /\ v = Num(429) => e.str = "429"
               /\ v = Str("rate limited") => e.str = "rate limited"
               /\ JustSettled(a) => state[invocations[a].inst].error = e

\* a call has just failed with a thrown value that is not an Error
C10_Witness ==
    \E a \in 1..N :
        /\ JustSettled(a)
        /\ invocations[a].response.kind = "reject"
        /\ invocations[a].response.value.type = "number"
        /\ state[invocations[a].inst].error.str = "429"

(* ------------------------------ C15 ----------------------------------- *)

\* C15: every execute invocation issues exactly one client call, its own:
\* the calls are as many as the invocations, the i-th call belongs to the
\* i-th invocation and carries its hook's method and its input; no call is
\* added by a failure (no retry), none is shared by two invocations with the
\* same input (no deduplication), none is saved by stored data (no cache).
C15_OneCallPerExecute ==
    /\ Len(calls) = N
    /\ \A i \in 1..N :
           /\ calls[i].inv = i
           /\ calls[i].method = Method(hookOf[invocations[i].inst])
           /\ calls[i].args = ArgsOf(hookOf[invocations[i].inst], invocations[i].input)
    /\ \A i \in 1..Len(calls) : \A j \in 1..Len(calls) : calls[i].inv = calls[j].inv => i = j

\* two invocations with the same input are in flight together, each with
\* its own call
C15_Witness ==
    \E a \in 1..N : \E b \in 1..N :
        /\ Newer(a, b)
        /\ invocations[a].input = invocations[b].input
        /\ invocations[a].pc = "await" /\ invocations[b].pc = "await"
        /\ Len(calls) = 2

(* ------------------------------ C19 ----------------------------------- *)

\* a newer execute or a reset came after invocation a started
Superseded(a) == ResetSince(a) \/ \E b \in 1..N : Newer(a, b)

\* C19: a superseded invocation is not cancelled: while it awaits, its
\* client call can still settle, by resolving or by failing; once settled,
\* its caller has received that call's own result or the normalized value
\* of that call's own failure, never the outcome of another invocation.
C19_SupersededStillCompletes ==
    \A a \in 1..N :
        Superseded(a) =>
            /\ invocations[a].pc \in {"await", "returned", "threw"}
            /\ invocations[a].pc = "await" =>
                   /\ \A payload \in Payloads : ENABLED Resolve(a, payload)
                   /\ \A thrown \in Thrown : ENABLED Catch(a, thrown)
            /\ invocations[a].pc = "returned" =>
                   /\ invocations[a].response.kind = "resolve"
                   /\ invocations[a].outcome = [kind |-> "return", value |-> invocations[a].response.value]
            /\ invocations[a].pc = "threw" =>
                   /\ invocations[a].response.kind = "reject"
                   /\ invocations[a].outcome.kind = "throw"
                   /\ IsNormalizedOf(invocations[a].outcome.value, invocations[a].response.value)
            /\ \A b \in 1..N :
                   (b # a /\ Settled(a) /\ Settled(b)) =>
                       invocations[a].outcome.value # invocations[b].outcome.value

\* an invocation superseded by a newer execute that settled first has
\* returned its own result to its caller
C19_Witness ==
    \E a \in 1..N : \E b \in 1..N :
        /\ JustSettled(a) /\ Newer(a, b) /\ Settled(b)
        /\ invocations[a].pc = "returned"
        /\ invocations[a].outcome.value.ref # invocations[b].outcome.value.ref

(* ------------------------------ C20 ----------------------------------- *)

\* C20: Pending is never stuck: when every client call eventually settles
\* (and executes are finitely many), every state with loading true is
\* followed by a state with loading false, under every interleaving of
\* execute, reset and settlements.
C20_PendingNotStuck ==
    \A h \in Instances : (state[h].loading ~> ~state[h].loading)

\* loading is true while an older, superseded invocation and the newest one
\* are both in flight
C20_Witness ==
    \E a \in 1..N : \E b \in 1..N :
        /\ Newer(a, b)
        /\ ~Settled(a) /\ ~Settled(b)
        /\ state[invocations[a].inst].loading

(* ------------------------------ C11 ----------------------------------- *)

\* C11: within a mounted scope the client constructor is called exactly
\* once, however many times the provider is evaluated: after n >= 1
\* evaluations the construction count is 1 and the handle in use is the one
\* built at the first evaluation.
C11_ConstructedOnce ==
    renders >= 1 =>
        /\ Len(constructions) = 1
        /\ clientRef = constructions[1]
        /\ contextValue.client = constructions[1]
        /\ constructions[1].type = "client"

\* the provider has been evaluated again after its first evaluation
C11_Witness == renders >= 2 /\ Len(constructions) >= 1

(* ------------------------------ C12 ----------------------------------- *)

\* C12: any two lookups made inside the mounted scope, by a component or
\* by a hook, before or after re-evaluations of the provider, return the
\* same context value object and the same handle; a hook holds that handle.
C12_SameHandle ==
    /\ \A i \in 1..Len(lookups) : \A j \in 1..Len(lookups) :
           (lookups[i].inside /\ lookups[j].inside) =>
               /\ lookups[i].outcome.kind = "return"
               /\ lookups[i].outcome.value = lookups[j].outcome.value
               /\ lookups[i].outcome.value.ref = lookups[j].outcome.value.ref
               /\ lookups[i].outcome.value.client.ref = lookups[j].outcome.value.client.ref
    /\ \A h \in Instances : \A i \in 1..Len(lookups) :
           (hookOf[h] # "none" /\ lookups[i].inside) =>
               clientOf[h] = lookups[i].outcome.value.client

\* two lookups inside the scope, with a re-evaluation of the provider
\* between them
C12_Witness ==
    \E i \in 1..Len(lookups) : \E j \in 1..Len(lookups) :
        /\ lookups[i].inside /\ lookups[j].inside
        /\ lookups[i].at < lookups[j].at
        /\ lookups[j].outcome.kind = "return"

(* ------------------------------ C13 ----------------------------------- *)

\* the lookup made by the step, when the step makes one
NewLookup == lookups'[Len(lookups')]

\* C13: a lookup outside any scope throws the missing-provider Error: it
\* returns no handle, builds no client and changes neither the scope nor
\* any operation state; a hook used outside a scope fails before its state
\* is created.
C13_LookupOutsideScopeFails ==
    [][(Len(lookups') = Len(lookups) + 1 /\ ~NewLookup.inside) =>
           /\ NewLookup.outcome.kind = "throw"
           /\ InstanceOfError(NewLookup.outcome.value)
           /\ NewLookup.outcome.value.str = MissingProviderMessage
           /\ UNCHANGED <<renders, clientRef, contextValue, constructions, clientOf>>
           /\ UNCHANGED <<hookOf, state, invocations, calls, resets, settledSinceReset>>]_vars

\* a hook has just been used outside any scope, while a provider is mounted
\* elsewhere
C13_Witness ==
    /\ last.op = "usehook"
    /\ renders >= 1
    /\ ~lookups[Len(lookups)].inside
    /\ lookups[Len(lookups)].outcome.kind = "throw"
    /\ hookOf[last.inst] = "none"

(* ------------------------------ C16 ----------------------------------- *)

\* C16: a client capability call is issued only by an execute invocation:
\* a step that adds a call is an execute step that adds one call and one
\* invocation; rendering the provider, looking the client up, rendering a
\* hook and reset() leave the calls as they are.
C16_CallsOnlyFromExecute ==
    [][/\ calls' # calls =>
              /\ last'.op = "execute"
              /\ Len(invocations') = Len(invocations) + 1
              /\ Len(calls') = Len(calls) + 1
              /\ calls'[Len(calls')].inv = Len(invocations')
       /\ last'.op \in {"render", "lookup", "usehook", "reset"} => calls' = calls]_vars

\* the provider was evaluated twice, a hook was rendered and reset, and no
\* call has been issued
C16_Witness ==
    /\ renders >= 2
    /\ \E h \in Instances : hookOf[h] # "none"
    /\ resets >= 1
    /\ calls = << >>

(* ------------------------------ C18 ----------------------------------- *)

\* C18 (as claimed): a mounted scope in which no descendant has yet looked
\* up the client has constructed no client.
C18_NoClientBeforeLookup ==
    (renders >= 1 /\ \A i \in 1..Len(lookups) : ~lookups[i].inside) =>
        (constructions = << >> /\ clientRef = NoClient)

\* C18 (amended): the client is built by the first evaluation of the
\* provider, not by a lookup: before the provider is evaluated no client
\* exists, and a mounted scope in which no descendant has yet looked up the
\* client has already constructed its one client.
C18_ClientBuiltAtFirstRender ==
    /\ renders = 0 => (constructions = << >> /\ clientRef = NoClient)
    /\ (renders >= 1 /\ \A i \in 1..Len(lookups) : ~lookups[i].inside) =>
           (Len(constructions) = 1 /\ clientRef = constructions[1] /\ clientRef # NoClient)

\* the provider is mounted and no descendant has looked the client up
C18_Witness ==
    /\ renders >= 1
    /\ \A i \in 1..Len(lookups) : ~lookups[i].inside
    /\ last.op = "render"

(* ------------------------------ C14 ----------------------------------- *)

\* the invocations of instance h
InvocationsOf(h) == {a \in 1..N : invocations[a].inst = h}

\* C14: two hook instances are isolated, whether they wrap the same
\* capability or different ones: a step changes the state of at most the
\* instance it belongs to, so executing, settling or resetting one leaves
\* the other's state as it was, and each call is made with the method and
\* the arguments of its own instance.
C14_InstancesIsolated ==
    /\ last.op \in {"execute", "settle", "reset"} =>
           \A g \in Instances \ {last.inst} : state[g] = prevState[g]
    /\ \A c \in 1..Len(calls) :
           /\ calls[c].method = Method(hookOf[invocations[calls[c].inv].inst])
           /\ calls[c].args = ArgsOf(hookOf[invocations[calls[c].inv].inst],
                                     invocations[calls[c].inv].input)

\* one instance has just been reset, or has just settled, while the other
\* one is Pending or holds a result
C14_Witness ==
    /\ last.op \in {"settle", "reset"}
    /\ \E g \in Instances \ {last.inst} :
           /\ state[g] # IdleState
           /\ InvocationsOf(g) # {}
           /\ InvocationsOf(last.inst) # {}

(* ------------------------------ C17 ----------------------------------- *)

\* C17 (as claimed): the public entry point exposes one hook for every
\* capability, the four breach hooks included: whichever hook of hooks.ts a
\* component renders, it could import it from the entry point.
C17_AllHooksExported ==
    \A h \in Instances : hookOf[h] \in Hooks => hookOf[h] \in IndexExports

(* ------------------------------ C21 ----------------------------------- *)

\* the client method of each capability, as the claim pairs them
CapabilityMethod ==
    [useDetectBullying     |-> "detectBullying",
     useDetectGrooming     |-> "detectGrooming",
     useDetectUnsafe       |-> "detectUnsafe",
     useAnalyze            |-> "analyze",
     useAnalyzeEmotions    |-> "analyzeEmotions",
     useGetActionPlan      |-> "getActionPlan",
     useGenerateReport     |-> "generateReport",
     useDeleteAccountData  |-> "deleteAccountData",
     useExportAccountData  |-> "exportAccountData",
     useRecordConsent      |-> "recordConsent",
     useGetConsentStatus   |-> "getConsentStatus",
     useWithdrawConsent    |-> "withdrawConsent",
     useRectifyData        |-> "rectifyData",
     useGetAuditLogs       |-> "getAuditLogs",
     useLogBreach          |-> "logBreach",
     useListBreaches       |-> "listBreaches",
     useGetBreach          |-> "getBreach",
     useUpdateBreachStatus |-> "updateBreachStatus"]

\* C21: every call a hook issues goes to the client method of the hook's
\* own capability, with the caller's input passed through unchanged: no
\* argument for useDeleteAccountData and useExportAccountData, the filter or
\* undefined for useGetConsentStatus, useGetAuditLogs and useListBreaches,
\* params.id and params.input as two arguments for useUpdateBreachStatus,
\* the input itself for the others.
C21_DelegatesToOwnCapability ==
    \A c \in 1..Len(calls) :
        LET hook == hookOf[invocations[calls[c].inv].inst]
            input == invocations[calls[c].inv].input
            args == calls[c].args
        IN /\ hook \in DOMAIN CapabilityMethod
           /\ calls[c].method = CapabilityMethod[hook]
           /\ hook \in {"useDeleteAccountData", "useExportAccountData"} => args = << >>
           /\ hook \in {"useGetConsentStatus", "useGetAuditLogs", "useListBreaches"} =>
                  (Len(args) = 1 /\ args[1] = input)
           /\ hook = "useUpdateBreachStatus" =>
                  (Len(args) = 2 /\ args[1] = input.id /\ args[2] = input.input)
           /\ hook \notin {"useDeleteAccountData", "useExportAccountData",
                           "useUpdateBreachStatus"} => args = <<input>>

\* useUpdateBreachStatus has issued its call with two arguments
C21_Witness ==
    \E c \in 1..Len(calls) :
        /\ hookOf[invocations[calls[c].inv].inst] = "useUpdateBreachStatus"
        /\ Len(calls[c].args) = 2
        /\ calls[c].args[1] # calls[c].args[2]

(* ------------------------------ C22 ----------------------------------- *)

\* C22: last writer wins. The state of an instance is fixed by the latest
\* event on it: Pending after an execute start, Idle after a reset, and
\* after a settlement the outcome of the invocation that settled, whether
\* or not newer invocations exist and whichever started first; so when every
\* invocation has settled and none of execute and reset came later, the
\* state holds the outcome of the invocation that settled last.
C22_LastWriterWins ==
    /\ last.op = "execute" =>
           state[last.inst] = [data |-> Null, loading |-> TRUE, error |-> Null]
    /\ last.op = "reset" =>
           state[last.inst] = [data |-> Null, loading |-> FALSE, error |-> Null]
    /\ last.op = "settle" =>
           /\ invocations[last.inv].inst = last.inst
           /\ invocations[last.inv].pc = "returned" =>
                  state[last.inst] = [data |-> invocations[last.inv].outcome.value,
                                      loading |-> FALSE, error |-> Null]
           /\ invocations[last.inv].pc = "threw" =>
                  state[last.inst] = [data |-> Null, loading |-> FALSE,
                                      error |-> invocations[last.inv].outcome.value]
           /\ invocations[last.inv].pc \in {"returned", "threw"}

\* every invocation has settled and the older one settled last, with a
\* failure, after the newer one had succeeded: the state shows the failure
C22_Witness ==
    \E a \in 1..N : \E b \in 1..N :
        /\ JustSettled(a) /\ Newer(a, b)
        /\ \A x \in 1..N : Settled(x)
        /\ invocations[b].pc = "returned" /\ invocations[a].pc = "threw"
        /\ state[last.inst].error = invocations[a].outcome.value

(* ------------------------------ C23 ----------------------------------- *)

\* C23: apiKey and options are read only by the first evaluation of the
\* provider. The first evaluation builds the client from its props; every
\* later evaluation, whatever its props, builds no client and leaves the
\* client and the context value as they are; every lookup inside the scope
\* and every execute, before or after, uses the client of the first
\* evaluation.
C23_CredentialReadOnce ==
    [][/\ (renders = 0 /\ renders' = 1) =>
              /\ constructions' = <<clientRef'>>
              /\ clientRef'.apiKey = props'.apiKey
              /\ clientRef'.options = props'.options
       /\ (renders >= 1 /\ renders' = renders + 1) =>
              UNCHANGED <<clientRef, constructions, contextValue>>
       /\ (Len(lookups') = Len(lookups) + 1 /\ NewLookup.inside) =>
              /\ NewLookup.outcome.kind = "return"
              /\ NewLookup.outcome.value.client = constructions'[1]
       /\ Len(calls') = Len(calls) + 1 =>
              calls'[Len(calls')].client = constructions'[1]]_vars

\* the provider has been evaluated again with another apiKey than the
\* client was built with, a lookup was made after that, and a hook has just
\* issued a call
C23_Witness ==
    /\ renders >= 2
    /\ props.apiKey # clientRef.apiKey
    /\ \E i \in 1..Len(lookups) : lookups[i].inside /\ lookups[i].at = renders
    /\ last.op = "execute"
    /\ calls # << >>

(* ------------------------------ C24 ----------------------------------- *)

\* C24: the execute and reset functions of a rendered hook instance are the
\* same objects after every step: a re-render of the component, a render of
\* the provider, a state change. reset never changes; execute would change
\* only with the client, and the client of a rendered instance never
\* changes; so every call is made on the client the instance first took.
C24_StableCallbacks ==
    [][\A h \in Instances :
           hookOf[h] # "none" =>
               /\ hookOf'[h] = hookOf[h]
               /\ callbacks'[h].reset = callbacks[h].reset
               /\ callbacks'[h].execute = callbacks[h].execute
               /\ clientOf'[h].ref = clientOf[h].ref
               /\ \A c \in 1..Len(calls') :
                      invocations'[calls'[c].inv].inst = h =>
                          calls'[c].client.ref = clientOf[h].ref]_vars

\* the component has just been rendered again, after the provider was
\* evaluated again and after the state of its hook has changed
C24_Witness ==
    /\ last.op = "rerender"
    /\ lookups[Len(lookups)].at >= 2
    /\ state[last.inst] # IdleState
    /\ callbacks[last.inst].execute # 0
    /\ callbacks[last.inst].execute # callbacks[last.inst].reset

(* ------------------------------ C25 ----------------------------------- *)

\* C25: every lookup that returns, returns isReady = true together with a
\* client: no lookup returns isReady = false, none returns a null client,
\* and every lookup inside a scope returns.
C25_LookupReady ==
    \A i \in 1..Len(lookups) :
        /\ lookups[i].inside => lookups[i].outcome.kind = "return"
        /\ lookups[i].outcome.kind = "return" =>
               /\ lookups[i].outcome.value.isReady = TRUE
               /\ lookups[i].outcome.value.client # NoClient
               /\ lookups[i].outcome.value.client.type = "client"

\* a component has just looked the client up inside the scope, right after
\* the first evaluation of the provider
C25_Witness ==
    /\ last.op = "lookup"
    /\ lookups[Len(lookups)].inside
    /\ lookups[Len(lookups)].at = 1
    /\ lookups[Len(lookups)].outcome.kind = "return"

(* ------------------------------ C26 ----------------------------------- *)

\* two values a caller cannot tell apart: the same value, or two Error
\* objects with the same message
SameValue(v, w) == v = w \/ (InstanceOfError(v) /\ InstanceOfError(w) /\ v.str = w.str)

\* C26: on each of the nine hooks both skins have, driven by the same
\* executes, resets and settlements in the same order, the hook of the
\* SafeNest skin and the hook of hooks.ts show the same {data, loading,
\* error} after every event, issue the same client calls, and hand their
\* callers the same return values and the same raised errors.
C26_SkinsEquivalent ==
    /\ Cardinality(SharedHooks) = 9
    /\ hookOf["op1"] = hookOf["op2"]
    /\ state["op1"].loading = state["op2"].loading
    /\ SameValue(state["op1"].data, state["op2"].data)
    /\ SameValue(state["op1"].error, state["op2"].error)
    /\ \A k \in 1..MaxSkinInvocations :
           2 * k <= Len(invocations) =>
               /\ invocations[2 * k - 1].pc = invocations[2 * k].pc
               /\ invocations[2 * k - 1].outcome.kind = invocations[2 * k].outcome.kind
               /\ SameValue(invocations[2 * k - 1].outcome.value, invocations[2 * k].outcome.value)
               /\ calls[2 * k - 1].method = calls[2 * k].method
               /\ calls[2 * k - 1].args = calls[2 * k].args
               /\ calls[2 * k - 1].seen = calls[2 * k].seen

\* after a success, an older call of both hooks has just failed with a value
\* that is not an Error: each hook shows its own wrapper, with the same
\* message
C26_Witness ==
    /\ last.op = "settle"
    /\ Len(invocations) = 4
    /\ invocations[1].pc = "threw" /\ invocations[2].pc = "threw"
    /\ invocations[3].pc = "returned" /\ invocations[4].pc = "returned"
    /\ last.inv = 1
    /\ state["op1"].error # state["op2"].error
    /\ state["op2"].error.str = "429"

====
